---- MODULE Spec2Model ----
(***************************************************************************)
(* Model of kyuko: the request routing of RoutePathHandler and            *)
(* RoutePathNode, and the Kyuko application that registers handlers on it  *)
(* and runs middleware, route handler and error handlers for a request.    *)
(*                                                                         *)
(* A string is a sequence of one-character strings, so that split, join,   *)
(* startsWith and substring are computed character by character as the     *)
(* JavaScript built-ins compute them.  The tree of RoutePathNode objects   *)
(* is an arena: nodes[i] is the i-th RoutePathNode constructed, nodes[1]   *)
(* is the root, and a reference to a node is its index (0 is null).        *)
(***************************************************************************)
EXTENDS Integers, Sequences, FiniteSets, TLC

\* RoutePathHandler: the tree, the route paths given to addRoutePath so far,
\* and the latest call with what it returned
VARIABLES nodes, registered, call

\* Kyuko: the fields #customHandlers, #defaultHandler, #middleware and
\* #errorHandlers, the request and response being handled, the position of
\* invokeHandlers, and what it has called and awaited for this request
VARIABLES customHandlers, defaultHandler, middleware, errorHandlers,
          req, res, run, log

\* the latest call that registered a route handler: app.get ... app.head or
\* app.all, with its arguments
VARIABLES lastRoute

\* Kyuko with a separate handleError (the later version of Kyuko.ts): the
\* handleError calls of the request that have not returned, each with its
\* position
VARIABLES handling

appVars ==
  <<customHandlers, defaultHandler, middleware, errorHandlers, req, res, run, log,
    lastRoute, handling>>

vars == <<nodes, registered, call, appVars>>

(***************************************************************************)
(* Bounds of the model.                                                    *)
(***************************************************************************)
\* longest route path or url path, in characters, of the specification Spec
MaxPathLen == 3
\* number of addRoutePath calls of the specification Spec
MaxRoutes == 2
\* number of addRoutePath calls of the specification SpecSeg
MaxSegRoutes == 3
\* most leading slashes put in front of a path by the slash-collapse property
MaxLead == 3
\* number of addRoutePath calls of the specification SpecUsers
MaxUsersRoutes == 5
\* number of routes registered in the specification SpecParams
MaxParamRoutes == 2
\* number of route handlers registered in the specification SpecApp
MaxAppRoutes == 2
\* number of middleware, of error handlers and of route handlers registered in
\* the specification SpecRun
MaxMiddleware == 2
MaxErrorHandlers == 2
MaxRunRoutes == 1
MaxCalls == 4

(***************************************************************************)
(* Strings.                                                                *)
(***************************************************************************)
Slash == "/"
Colon == ":"

\* the characters paths are made of
Alphabet == {Slash, Colon, "a"}

\* every string over Alphabet of at most n characters
RECURSIVE StringsUpTo(_)
StringsUpTo(n) ==
  IF n = 0 THEN {<<>>}
  ELSE LET shorter == StringsUpTo(n - 1)
       IN  shorter \cup {Append(s, c) : s \in {t \in shorter : Len(t) = n - 1}, c \in Alphabet}

\* the value of the root node, '\0'
RootValue == <<"\\0">>

\* the value findMatch returns when nothing matches
Undefined == <<"undefined">>

\* String.prototype.startsWith(":")
StartsWithColon(s) == Len(s) > 0 /\ s[1] = Colon

\* String.prototype.split("/"): the pieces between the slashes, at least one
RECURSIVE SplitFrom(_, _, _)
SplitFrom(s, i, piece) ==
  IF i > Len(s) THEN <<piece>>
  ELSE IF s[i] = Slash THEN <<piece>> \o SplitFrom(s, i + 1, <<>>)
  ELSE SplitFrom(s, i + 1, Append(piece, s[i]))

Split(s) == SplitFrom(s, 1, <<>>)

\* Array.prototype.findIndex(seg => seg !== ""), 0-based, -1 when there is none
RECURSIVE FindIndexNonEmpty(_, _)
FindIndexNonEmpty(arr, i) ==
  IF i > Len(arr) THEN -1
  ELSE IF arr[i] # <<>> THEN i - 1
  ELSE FindIndexNonEmpty(arr, i + 1)

\* Array.prototype.splice(0, deleteCount): deleteCount is clamped to 0..length
SpliceFront(arr, deleteCount) ==
  LET n == IF deleteCount < 0 THEN 0
           ELSE IF deleteCount > Len(arr) THEN Len(arr) ELSE deleteCount
  IN  SubSeq(arr, n + 1, Len(arr))

\* splitPathSegments that forgets to drop the trailing empty segment
SplitPathSegments_KeepTrailing(path) ==
  LET result  == Split(path)
      divider == FindIndexNonEmpty(result, 1)
  IN  IF divider = -1 THEN << <<>> >>
      ELSE SpliceFront(result, divider - 1)

\* splitPathSegments that forgets to merge the leading empty segments
SplitPathSegments_NoCollapse(path) ==
  LET result  == Split(path)
      divider == FindIndexNonEmpty(result, 1)
  IN  IF divider = -1 THEN << <<>> >>
      ELSE IF result[Len(result)] = <<>>
           THEN SubSeq(result, 1, Len(result) - 1)
           ELSE result

\* splitPathSegments that drops every trailing empty segment, not just one
RECURSIVE DropTrailingEmpty(_)
DropTrailingEmpty(arr) ==
  IF Len(arr) > 1 /\ arr[Len(arr)] = <<>>
  THEN DropTrailingEmpty(SubSeq(arr, 1, Len(arr) - 1))
  ELSE arr

SplitPathSegments_DropAllTrailing(path) ==
  LET result  == Split(path)
      divider == FindIndexNonEmpty(result, 1)
  IN  IF divider = -1 THEN << <<>> >>
      ELSE DropTrailingEmpty(SpliceFront(result, divider - 1))

\* splitPathSegments that leaves out the empty segments behind the first one
RECURSIVE NonEmptyOnly(_)
NonEmptyOnly(arr) ==
  IF Len(arr) = 0 THEN <<>>
  ELSE IF Head(arr) = <<>> THEN NonEmptyOnly(Tail(arr))
  ELSE <<Head(arr)>> \o NonEmptyOnly(Tail(arr))

SplitPathSegments_SkipEmpty(path) ==
  LET result  == Split(path)
      divider == FindIndexNonEmpty(result, 1)
  IN  IF divider = -1 THEN << <<>> >>
      ELSE << <<>> >> \o NonEmptyOnly(result)

\* RoutePathHandler.splitPathSegments
SplitPathSegments(path) ==
  LET result  == Split(path)
      divider == FindIndexNonEmpty(result, 1)
  IN  IF divider = -1 THEN << <<>> >>
      ELSE LET spliced == SpliceFront(result, divider - 1)
           IN  IF spliced[Len(spliced)] = <<>>
               THEN SubSeq(spliced, 1, Len(spliced) - 1)
               ELSE spliced

(***************************************************************************)
(* RoutePathNode.                                                          *)
(***************************************************************************)
\* the routePath the constructor computes for a node of this value and parent
RoutePathOf(ns, value, parent) ==
  IF parent = 0 THEN <<>>
  ELSE IF ns[parent].value = RootValue THEN <<Slash>>
  ELSE IF ns[parent].routePath = <<Slash>> THEN <<Slash>> \o value
  ELSE ns[parent].routePath \o <<Slash>> \o value

\* new RoutePathNode(value, parent)
\* a constructor that makes the node the end of a route path
NewNode_Stationary(ns, value, parent) ==
  [ isStationaryNode |-> TRUE,
    value            |-> value,
    height           |-> 0,
    parent           |-> parent,
    concreteChildren |-> <<>>,
    wildcardChildren |-> <<>>,
    routePath        |-> RoutePathOf(ns, value, parent) ]

NewNode(ns, value, parent) ==
  [ isStationaryNode |-> FALSE,
    value            |-> value,
    height           |-> 0,
    parent           |-> parent,
    concreteChildren |-> <<>>,
    wildcardChildren |-> <<>>,
    routePath        |-> RoutePathOf(ns, value, parent) ]

\* RoutePathNode.createRoot()
CreateRoot == NewNode(<<>>, RootValue, 0)

\* Map.prototype.has / get on a child container: the child of this key, 0 if none
RECURSIVE MapGet(_, _, _, _)
MapGet(ns, container, key, i) ==
  IF i > Len(container) THEN 0
  ELSE IF ns[container[i]].value = key THEN container[i]
  ELSE MapGet(ns, container, key, i + 1)

\* RoutePathNode.updateTreeHeight, called on the newly created node curr
\* updateTreeHeight that raises the parent only
UpdateTreeHeight_ParentOnly(ns, curr) ==
  LET parentNode == ns[curr].parent
  IN  IF parentNode = 0 THEN ns
      ELSE IF ns[parentNode].height # ns[curr].height THEN ns
      ELSE [ns EXCEPT ![parentNode].height = ns[parentNode].height + 1]

RECURSIVE UpdateTreeHeight(_, _)
UpdateTreeHeight(ns, curr) ==
  LET parentNode == ns[curr].parent
  IN  IF parentNode = 0 THEN ns
      ELSE IF ns[parentNode].height # ns[curr].height THEN ns
      ELSE UpdateTreeHeight(
             [ns EXCEPT ![parentNode].height = ns[parentNode].height + 1],
             parentNode)

\* a container that iterates its newest entry first
MapSetNew_First(container, child) == <<child>> \o container

\* Map.prototype.set of a new key: the entry goes last in iteration order
MapSetNew(container, child) == Append(container, child)

\* findOrCreateChild that creates a child without looking for an existing one
FindOrCreateChild_NoLookup(ns, this, value) ==
  LET wild      == StartsWithColon(value)
      container == IF wild THEN ns[this].wildcardChildren
                   ELSE ns[this].concreteChildren
      newId     == Len(ns) + 1
      added     == Append(ns, NewNode(ns, value, this))
      set       == IF wild
                   THEN [added EXCEPT ![this].wildcardChildren = MapSetNew(container, newId)]
                   ELSE [added EXCEPT ![this].concreteChildren = MapSetNew(container, newId)]
  IN  [nodes |-> UpdateTreeHeight(set, newId), node |-> newId]

\* RoutePathNode.findOrCreateChild: the tree afterwards and the child returned
FindOrCreateChild(ns, this, value) ==
  LET wild      == StartsWithColon(value)
      container == IF wild THEN ns[this].wildcardChildren
                   ELSE ns[this].concreteChildren
      found     == MapGet(ns, container, value, 1)
  IN  IF found # 0 THEN [nodes |-> ns, node |-> found]
      ELSE LET newId == Len(ns) + 1
               added == Append(ns, NewNode(ns, value, this))
               set   == IF wild
                        THEN [added EXCEPT ![this].wildcardChildren = MapSetNew(container, newId)]
                        ELSE [added EXCEPT ![this].concreteChildren = MapSetNew(container, newId)]
           IN  [nodes |-> UpdateTreeHeight(set, newId), node |-> newId]

\* findMatchingChildren that pushes the wildcard children before the exact child
FindMatchingChildren_WildcardsFirst(ns, this, value) ==
  LET concrete == MapGet(ns, ns[this].concreteChildren, value, 1)
  IN  ns[this].wildcardChildren \o (IF concrete # 0 THEN <<concrete>> ELSE <<>>)

\* RoutePathNode.findMatchingChildren
FindMatchingChildren(ns, this, value) ==
  LET concrete == MapGet(ns, ns[this].concreteChildren, value, 1)
  IN  (IF concrete # 0 THEN <<concrete>> ELSE <<>>) \o ns[this].wildcardChildren

(***************************************************************************)
(* RoutePathHandler.                                                       *)
(***************************************************************************)
\* the forEach of addRoutePath: descend from currNode along the segments
RECURSIVE Descend(_, _, _, _)
Descend(ns, currNode, segments, i) ==
  IF i > Len(segments) THEN [nodes |-> ns, node |-> currNode]
  ELSE LET r == FindOrCreateChild(ns, currNode, segments[i])
       IN  Descend(r.nodes, r.node, segments, i + 1)

\* addRoutePath that also marks the node above the last one
MarkStationary_WithParent(ns, last) ==
  [n \in 1..Len(ns) |->
     IF n = last \/ (n = ns[last].parent /\ n # 1)
     THEN [ns[n] EXCEPT !.isStationaryNode = TRUE]
     ELSE ns[n]]

\* the flags addRoutePath sets once it has descended to the node last
MarkStationary(ns, last) == [ns EXCEPT ![last].isStationaryNode = TRUE]

\* addRoutePath that makes the route path the only one of the handler
AddRoutePathTree_Replacing(ns, routePath) ==
  LET segments == SplitPathSegments(routePath)
      r        == Descend(ns, 1, segments, 1)
  IN  [n \in 1..Len(r.nodes) |->
         [r.nodes[n] EXCEPT !.isStationaryNode = (n = r.node)]]

\* RoutePathHandler.addRoutePath: the tree afterwards
AddRoutePathTree(ns, routePath) ==
  LET segments == SplitPathSegments(routePath)
      r        == Descend(ns, 1, segments, 1)
  IN  MarkStationary(r.nodes, r.node)

\* the height test of findMatch off by one
KeptChildren_StrictHeight(ns, node, segment, remaining) ==
  SelectSeq(FindMatchingChildren(ns, node, segment),
            LAMBDA child : ns[child].height > remaining)

\* the children of one frontier node that findMatch keeps
KeptChildren(ns, node, segment, remaining) ==
  SelectSeq(FindMatchingChildren(ns, node, segment),
            LAMBDA child : ns[child].height >= remaining)

\* the inner forEach of findMatch: nextNodes for the frontier currNodes
RECURSIVE NextNodes(_, _, _, _, _)
NextNodes(ns, currNodes, k, segment, remaining) ==
  IF k > Len(currNodes) THEN <<>>
  ELSE KeptChildren(ns, currNodes[k], segment, remaining)
         \o NextNodes(ns, currNodes, k + 1, segment, remaining)

\* the outer forEach of findMatch: currNodes after its first k iterations
RECURSIVE FrontierAfter(_, _, _)
FrontierAfter(ns, segments, k) ==
  IF k = 0 THEN <<1>>
  ELSE LET currNodes == FrontierAfter(ns, segments, k - 1)
       IN  IF Len(currNodes) = 0 THEN currNodes
           ELSE NextNodes(ns, currNodes, 1, segments[k], Len(segments) - (k - 1) - 1)

\* the finalists of findMatch and the node it answers with, 0 for none
Finalists(ns, currNodes) ==
  SelectSeq(currNodes, LAMBDA node : ns[node].isStationaryNode)

FindMatchNode(ns, urlPath) ==
  LET segments  == SplitPathSegments(urlPath)
      finalists == Finalists(ns, FrontierAfter(ns, segments, Len(segments)))
  IN  IF Len(finalists) = 0 THEN 0 ELSE finalists[1]

\* findMatch that falls back to the root path when there is no finalist
MatchResult_RootFallback(ns, node) == IF node = 0 THEN <<Slash>> ELSE ns[node].routePath

\* the value findMatch returns for the node it answers with
MatchResult(ns, node) == IF node = 0 THEN Undefined ELSE ns[node].routePath

\* RoutePathHandler.findMatch
FindMatchOp(ns, urlPath) == MatchResult(ns, FindMatchNode(ns, urlPath))

(***************************************************************************)
(* RoutePathHandler.createPathParams, and the objects of a Kyuko app.      *)
(***************************************************************************)
\* substring that keeps the first character
Substring1_Whole(s) == s

\* String.prototype.substring(1)
Substring1(s) == IF Len(s) = 0 THEN <<>> ELSE Tail(s)

\* map.set(key, value) and object[key] = value: a map or an object is a
\* function from its keys, and a later value for a key replaces the earlier
SetEntry(map, key, value) ==
  [k \in (DOMAIN map) \cup {key} |-> IF k = key THEN value ELSE map[k]]

\* an object or a map with no entry
Empty == [k \in {} |-> <<>>]

\* array[i] of JavaScript for the 0-based index i - 1: undefined past the end
ElementAt(arr, i) == IF i \in 1..Len(arr) THEN arr[i] ELSE Undefined

\* routeSegments.forEach of createPathParams, from the i-th segment on
RECURSIVE ParamsFrom(_, _, _, _)
ParamsFrom(result, routeSegments, urlSegments, i) ==
  IF i > Len(routeSegments) THEN result
  ELSE ParamsFrom(
         IF StartsWithColon(routeSegments[i])
         THEN SetEntry(result, Substring1(routeSegments[i]), ElementAt(urlSegments, i))
         ELSE result,
         routeSegments, urlSegments, i + 1)

\* RoutePathHandler.createPathParams
CreatePathParams(routePath, urlPath) ==
  ParamsFrom(Empty, SplitPathSegments(routePath), SplitPathSegments(urlPath), 1)

\* the request methods a Kyuko app keeps handlers for
Methods == {"GET", "POST", "PUT", "DELETE", "PATCH", "HEAD"}

\* the default handler of the constructor: (_, res) => res.status(404).send()
NotFound == "notFound"

\* KyukoRequestImpl and KyukoResponseImpl as constructed for a fetch event;
\* statusCode 0 is undefined, and responses are the status codes of the
\* Response objects given to fetchEvent.respondWith
NewRequest(method, pathname) == [method |-> method, path |-> pathname, params |-> Empty]
NewResponse == [sent |-> FALSE, statusCode |-> 0, responses |-> <<>>]

\* no route handler has been registered
NoRoute == [op |-> "none", method |-> "", routePath |-> <<>>, handler |-> NotFound]

\* invokeHandlers is not running
Idle == [pc |-> "idle", idx |-> 0, pending |-> FALSE, thrown |-> FALSE, handler |-> NotFound]

(***************************************************************************)
(* The state machine.                                                      *)
(***************************************************************************)
\* the record of the latest call on the handler
NoCall == [op |-> "none", arg |-> <<>>, ret |-> Undefined, node |-> 0]

Init ==
  /\ nodes = <<CreateRoot>>
  /\ registered = <<>>
  /\ call = NoCall
  /\ customHandlers = [m \in Methods |-> Empty]
  /\ defaultHandler = NotFound
  /\ middleware = <<>>
  /\ errorHandlers = <<>>
  /\ req = NewRequest("", <<>>)
  /\ res = NewResponse
  /\ run = Idle
  /\ log = <<>>
  /\ lastRoute = NoRoute
  /\ handling = <<>>

AddRoutePath(routePath, limit) ==
  /\ Len(registered) < limit
  /\ nodes' = AddRoutePathTree(nodes, routePath)
  /\ registered' = Append(registered, routePath)
  /\ call' = [op |-> "addRoutePath", arg |-> routePath, ret |-> Undefined, node |-> 0]
  /\ UNCHANGED appVars

FindMatch(urlPath) ==
  /\ LET node == FindMatchNode(nodes, urlPath)
     IN  call' = [op |-> "findMatch", arg |-> urlPath,
                  ret |-> MatchResult(nodes, node), node |-> node]
  /\ UNCHANGED <<nodes, registered>>
  /\ UNCHANGED appVars

\* Spec: route paths and url paths are all the strings of at most MaxPathLen characters
Paths == StringsUpTo(MaxPathLen)

Next ==
  \/ \E routePath \in Paths : AddRoutePath(routePath, MaxRoutes)
  \/ \E urlPath \in Paths : FindMatch(urlPath)

Spec == Init /\ [][Next]_vars

\* Array.prototype.join("/") behind a leading slash
RECURSIVE JoinSlash(_)
JoinSlash(segs) ==
  IF Len(segs) = 0 THEN <<>> ELSE <<Slash>> \o Head(segs) \o JoinSlash(Tail(segs))

\* SpecSeg: route paths of one or two segments behind the root, in the form the
\* README and the tests write them, and the url paths requested of them
RouteSegs == { <<"a">>, <<Colon>>, <<Colon, "a">> }
UrlSegs == { <<"a">>, <<"b">> }

SegRoutes ==
  { <<Slash>> } \cup { JoinSlash(<<s>>) : s \in RouteSegs }
                \cup { JoinSlash(<<s, t>>) : s \in RouteSegs, t \in RouteSegs }

SegUrls ==
  { <<Slash>> } \cup { JoinSlash(<<s>>) : s \in UrlSegs }
                \cup { JoinSlash(<<s, t>>) : s \in UrlSegs, t \in UrlSegs }

\* url paths with repeated, trailing or surplus parts
SlashUrls ==
  { <<Slash, Slash>>, <<Slash, "a", Slash>>, <<Slash, "a", Slash, "a", Slash, "a">> }

\* route paths written with a trailing slash or a repeated leading slash
SlashRoutes == { <<Slash, "a", Slash>>, <<Slash, Slash, "a">> }

NextSeg ==
  \/ \E routePath \in SegRoutes \cup SlashRoutes : AddRoutePath(routePath, MaxSegRoutes)
  \/ \E urlPath \in SegUrls \cup SlashUrls : FindMatch(urlPath)

SpecSeg == Init /\ [][NextSeg]_vars

(***************************************************************************)
(* Vocabulary of the properties.                                           *)
(***************************************************************************)
\* a route segment covers a url segment: it is a wildcard or the same string
SegmentMatches(routeSeg, urlSeg) == StartsWithColon(routeSeg) \/ routeSeg = urlSeg

\* segments of a route cover the segments of a url, one to one
SegmentsMatch(rs, us) ==
  /\ Len(rs) = Len(us)
  /\ \A i \in 1..Len(rs) : SegmentMatches(rs[i], us[i])

\* route path p matches url path u
RouteMatches(p, u) == SegmentsMatch(SplitPathSegments(p), SplitPathSegments(u))

\* the values on the way from the root down to node n
RECURSIVE NodeSegments(_, _)
NodeSegments(ns, n) ==
  IF ns[n].parent = 0 THEN <<>>
  ELSE Append(NodeSegments(ns, ns[n].parent), ns[n].value)

\* the node at which the segments of route path p end, 0 when the tree has none
NodeOfRoute(ns, p) ==
  LET at == {n \in 1..Len(ns) : NodeSegments(ns, n) = SplitPathSegments(p)}
  IN  IF at = {} THEN 0 ELSE CHOOSE n \in at : TRUE

\* a route path with its slashes normalised: the segments behind the leading
\* one, joined by single slashes behind one slash
NormalPath(p) ==
  LET segs == SplitPathSegments(p)
  IN  IF Len(segs) = 1 THEN <<Slash>> ELSE JoinSlash(Tail(segs))

Registrations == 1..Len(registered)

\* the addRoutePath call that first registered route path p
FirstIndex(p) ==
  CHOOSE i \in Registrations :
    registered[i] = p /\ \A j \in Registrations : registered[j] = p => i <= j

Looked == call.op = "findMatch"

HasWildcard(p) ==
  \E i \in 1..Len(SplitPathSegments(p)) : StartsWithColon(SplitPathSegments(p)[i])

EndsWithSlash(s) == Len(s) > 0 /\ s[Len(s)] = Slash

BeginsWithSlash(s) == Len(s) > 0 /\ s[1] = Slash

RECURSIVE Slashes(_)
Slashes(k) == IF k = 0 THEN <<>> ELSE <<Slash>> \o Slashes(k - 1)

(***************************************************************************)
(* Vocabulary of the priority properties.                                  *)
(***************************************************************************)
\* the registered routes as segment sequences
RouteSegments(i) == SplitPathSegments(registered[i])

\* the addRoutePath call that first registered a route ending at node n
FirstCallOfNode(n) ==
  CHOOSE i \in Registrations :
    /\ NodeOfRoute(nodes, registered[i]) = n
    /\ \A j \in Registrations : NodeOfRoute(nodes, registered[j]) = n => i <= j

\* routes i and j, of equal length, first differ at position k
FirstDifferAt(i, j, k) ==
  /\ k \in 1..Len(RouteSegments(i))
  /\ RouteSegments(i)[k] # RouteSegments(j)[k]
  /\ \A m \in 1..(k - 1) : RouteSegments(i)[m] = RouteSegments(j)[m]

\* routes i and j are the same but for the wildcard token at one position
DifferInOneWildcard(i, j) ==
  /\ Len(RouteSegments(i)) = Len(RouteSegments(j))
  /\ \E k \in 1..Len(RouteSegments(i)) :
       /\ FirstDifferAt(i, j, k)
       /\ StartsWithColon(RouteSegments(i)[k])
       /\ StartsWithColon(RouteSegments(j)[k])
       /\ \A m \in (k + 1)..Len(RouteSegments(i)) : RouteSegments(i)[m] = RouteSegments(j)[m]

\* routes i and j have their wildcards at exactly the same positions
SameWildcardPositions(i, j) ==
  /\ Len(RouteSegments(i)) = Len(RouteSegments(j))
  /\ \A k \in 1..Len(RouteSegments(i)) :
       StartsWithColon(RouteSegments(i)[k]) <=> StartsWithColon(RouteSegments(j)[k])

BothMatch(i, j) ==
  RouteMatches(registered[i], call.arg) /\ RouteMatches(registered[j], call.arg)

\* the rank of node n among the children of its parent that cover one url
\* segment: the literal child first, the wildcard children in the order of
\* their creation (a node's index in the arena is its time of creation)
Rank(ns, n) == IF StartsWithColon(ns[n].value) THEN n ELSE 0

RECURSIVE RankPath(_, _)
RankPath(ns, n) ==
  IF ns[n].parent = 0 THEN <<>>
  ELSE Append(RankPath(ns, ns[n].parent), Rank(ns, n))

\* lexicographic order on rank paths of one length
LexLess(a, b) ==
  \E k \in 1..Len(a) :
    /\ a[k] < b[k]
    /\ \A m \in 1..(k - 1) : a[m] = b[m]

\* the stationary nodes whose segments cover the url segments us
MatchingRouteNodes(ns, us) ==
  {n \in 2..Len(ns) : ns[n].isStationaryNode /\ SegmentsMatch(NodeSegments(ns, n), us)}

C2_ExactRouteReturnsItself ==
  ( /\ Looked
    /\ \E i \in Registrations : registered[i] = call.arg
    /\ ~HasWildcard(call.arg) )
  => call.ret = call.arg

(***************************************************************************)
(* C3.  Literal beats wildcard whatever the order of registration: when    *)
(* two registered routes both match u and first differ at a position where *)
(* one has a literal segment and the other a wildcard, findMatch(u) does   *)
(* not return the one with the wildcard.                                   *)
(***************************************************************************)
C3_LiteralBeatsWildcard ==
  Looked =>
    \A i, j \in Registrations :
      ( /\ BothMatch(i, j)
        /\ \E k \in 1..Len(RouteSegments(i)) :
             /\ FirstDifferAt(i, j, k)
             /\ ~StartsWithColon(RouteSegments(i)[k])
             /\ StartsWithColon(RouteSegments(j)[k]) )
      => /\ call.node # NodeOfRoute(nodes, registered[j])
         /\ call.ret # NormalPath(registered[j])

\* the wildcard route was registered first, the literal one answers; they part
\* at the first of two segments
C3_Witness ==
  /\ Looked
  /\ \E i, j \in Registrations :
       /\ j < i
       /\ BothMatch(i, j)
       /\ Len(RouteSegments(i)) = 3
       /\ FirstDifferAt(i, j, 2)
       /\ ~StartsWithColon(RouteSegments(i)[2])
       /\ StartsWithColon(RouteSegments(j)[2])
       /\ StartsWithColon(RouteSegments(i)[3])
       /\ ~StartsWithColon(RouteSegments(j)[3])
       /\ call.ret = registered[i]

(***************************************************************************)
(* C4.  If two registered routes are the same but for the wildcard token   *)
(* at one segment position and both match u, findMatch(u) returns the one  *)
(* whose addRoutePath call came first, never the one added later.          *)
(***************************************************************************)
C4_FirstRegisteredWildcardWins ==
  Looked =>
    \A i, j \in Registrations :
      ( /\ DifferInOneWildcard(i, j)
        /\ BothMatch(i, j)
        /\ FirstIndex(registered[i]) < FirstIndex(registered[j]) )
      => call.node # NodeOfRoute(nodes, registered[j])

(***************************************************************************)
(* C5.  If findMatch(u) returns route r, no other registered route that    *)
(* matches u and has its wildcards at exactly the positions of r was added *)
(* by an earlier addRoutePath call than r.                                 *)
(***************************************************************************)
C5_EarliestAmongEqualSpecificity ==
  (Looked /\ call.node # 0) =>
    \A j \in Registrations :
      ( /\ NodeOfRoute(nodes, registered[j]) # call.node
        /\ RouteMatches(registered[j], call.arg)
        /\ SameWildcardPositions(j, FirstCallOfNode(call.node)) )
      => FirstCallOfNode(call.node) < j

C7_DepthExactness ==
  /\ Looked =>
       /\ \A i \in Registrations :
            Len(RouteSegments(i)) # Len(SplitPathSegments(call.arg))
              => call.node # NodeOfRoute(nodes, registered[i])
       /\ call.ret # Undefined =>
            \E i \in Registrations :
              /\ Len(RouteSegments(i)) = Len(SplitPathSegments(call.arg))
              /\ call.node = NodeOfRoute(nodes, registered[i])
  /\ registered = << <<Slash, "a", Slash, Colon, "a">> >> =>
       \A u \in { <<Slash>>, <<Slash, Slash>>, <<Slash, "a">>, <<Slash, "a", Slash>>,
                  <<Slash, "a", Slash, "a", Slash, "a">> } :
         FindMatchOp(nodes, u) = Undefined
  /\ registered = << <<Slash, Colon, "a">> >> =>
       \A u \in { <<Slash>>, <<Slash, Slash>> } : FindMatchOp(nodes, u) = Undefined

\* only "/a/:a" is registered and "/a/a/a", one segment longer, was looked up
C7_Witness ==
  /\ Looked
  /\ registered = << <<Slash, "a", Slash, Colon, "a">> >>
  /\ call.arg = <<Slash, "a", Slash, "a", Slash, "a">>
  /\ call.ret = Undefined

(***************************************************************************)
(* C8.  On a handler on which addRoutePath was never called, findMatch     *)
(* returns undefined for every url path.                                   *)
(***************************************************************************)
C8_EmptyHandlerMatchesNothing ==
  (Looked /\ registered = <<>>) => (call.ret = Undefined /\ call.node = 0)

\* the empty handler was asked for "//"
C8_Witness ==
  /\ Looked
  /\ registered = <<>>
  /\ Len(nodes) = 1
  /\ call.arg = <<Slash, Slash>>
  /\ call.ret = Undefined

(***************************************************************************)
(* C9.  For every registered set and every url path u that does not end   *)
(* in a slash, findMatch(u + "/") = findMatch(u).                          *)
(***************************************************************************)
C9_TrailingSlashIgnored ==
  (Looked /\ ~EndsWithSlash(call.arg)) =>
    FindMatchOp(nodes, call.arg \o <<Slash>>) = call.ret

\* a url path without a trailing slash that has a match
C9_Witness ==
  /\ Looked
  /\ ~EndsWithSlash(call.arg)
  /\ Len(SplitPathSegments(call.arg)) = 2
  /\ call.ret # Undefined
  /\ FindMatchOp(nodes, call.arg \o <<Slash>>) = call.ret

(***************************************************************************)
(* C10.  For every registered set and every string rest, findMatch of any  *)
(* number k >= 1 of slashes followed by rest equals findMatch("/" + rest). *)
(***************************************************************************)
C10_LeadingSlashesCollapse ==
  (Looked /\ BeginsWithSlash(call.arg)) =>
    \A k \in 1..MaxLead :
      FindMatchOp(nodes, Slashes(k) \o Tail(call.arg)) = call.ret

\* a url path "/" + rest with a match, rest itself beginning with a segment
C10_Witness ==
  /\ Looked
  /\ Len(call.arg) > 1
  /\ call.arg[1] = Slash
  /\ call.arg[2] # Slash
  /\ call.ret # Undefined
  /\ FindMatchOp(nodes, <<Slash, Slash>> \o Tail(call.arg)) = call.ret

(***************************************************************************)
(* SpecUsers: the scenario of the tests.  The five route paths             *)
(*   /   /users   /users/:userId   /users/:userId/friends                  *)
(*   /users/:userId/friends/:friendId                                      *)
(* are written with u for users, f for friends, :i for :userId and :j for  *)
(* :friendId; the url paths write A for Alice and B for Bob.               *)
(***************************************************************************)
RECURSIVE Range(_)
Range(seq) == IF Len(seq) = 0 THEN {} ELSE {Head(seq)} \cup Range(Tail(seq))

UsersRoutes ==
  << <<Slash>>,
     <<Slash, "u">>,
     <<Slash, "u", Slash, Colon, "i">>,
     <<Slash, "u", Slash, Colon, "i", Slash, "f">>,
     <<Slash, "u", Slash, Colon, "i", Slash, "f", Slash, Colon, "j">> >>

\* two more route paths: /users/friends, and /users// whose last segment is
\* an empty literal
OtherRoutes ==
  { <<Slash, "u", Slash, "f">>, <<Slash, "u", Slash, Slash>> }

UsersUrls ==
  { <<Slash>>,
    <<Slash, "u">>,
    <<Slash, "u", Slash, "A">>,
    <<Slash, "u", Slash, "A", Slash, "f">>,
    <<Slash, "u", Slash, "A", Slash, "f", Slash, "B">>,
    <<Slash, "u", Slash, "f">>,
    <<Slash, "u", Slash>>,
    <<Slash, "u", Slash, Slash>>,
    <<Slash, "u", Slash, Slash, Slash>>,
    <<Slash, "u", Slash, Slash, "f">>,
    <<Slash, "u", Slash, Slash, "f", Slash, Slash>>,
    <<Slash, "u", Slash, Slash, "f", Slash, Slash, Slash>>,
    <<Slash, "u", Slash, "A", Slash, Slash, "f">>,
    <<Slash, Slash>> }

\* every route path is registered once, in any order
NextUsers ==
  \/ \E routePath \in (Range(UsersRoutes) \cup OtherRoutes) \ Range(registered) :
        AddRoutePath(routePath, MaxUsersRoutes)
  \/ \E urlPath \in UsersUrls : FindMatch(urlPath)

SpecUsers == Init /\ [][NextUsers]_vars

\* exactly the five route paths of the scenario are registered
FiveRegistered == Range(registered) = Range(UsersRoutes)

\* the number of slashes a string ends in
RECURSIVE TrailingSlashes(_)
TrailingSlashes(s) ==
  IF Len(s) = 0 \/ s[Len(s)] # Slash THEN 0
  ELSE 1 + TrailingSlashes(SubSeq(s, 1, Len(s) - 1))

\* a string without the slashes it ends in
Stripped(s) == SubSeq(s, 1, Len(s) - TrailingSlashes(s))

\* k empty segments
Empties(k) == [i \in 1..k |-> <<>>]

\* the segments of url path u are those of u without its trailing slashes,
\* followed by one empty segment for each trailing slash but one, and a route
\* answering u has a wildcard or an empty literal at each of them
KeepsAllButOne(u) ==
  LET n  == TrailingSlashes(u)
      us == SplitPathSegments(u)
      bs == SplitPathSegments(Stripped(u))
  IN  /\ us = bs \o Empties(n - 1)
      /\ call.ret # Undefined =>
            /\ call.node # 0
            /\ \A k \in (Len(bs) + 1)..Len(us) :
                 LET v == NodeSegments(nodes, call.node)[k]
                 IN  StartsWithColon(v) \/ v = <<>>

\* the lookups of the "mix of / caveats" test that end in two or more slashes
UsersTrailingExamples ==
  (Looked /\ FiveRegistered) =>
    /\ call.arg = <<Slash, "u", Slash, Slash>> =>
          call.ret = <<Slash, "u", Slash, Colon, "i">>
    /\ call.arg = <<Slash, "u", Slash, Slash, Slash>> => call.ret = Undefined
    /\ call.arg = <<Slash, "u", Slash, Slash, "f", Slash, Slash, Slash>> =>
          call.ret = Undefined

(***************************************************************************)
(* C11.  Exactly one trailing slash is dropped: a url path that has a      *)
(* non-empty segment and ends in n >= 2 slashes keeps n - 1 trailing empty *)
(* segments, each matched only by a wildcard or an empty literal route     *)
(* segment.  With the five routes registered, findMatch("/users//") is     *)
(* "/users/:userId", findMatch("/users///") and                            *)
(* findMatch("/users//friends///") are undefined.                          *)
(***************************************************************************)
C11_OneTrailingSlashDropped ==
  /\ (Looked /\ TrailingSlashes(call.arg) >= 2 /\ Stripped(call.arg) # <<>>) =>
        KeepsAllButOne(call.arg)
  /\ UsersTrailingExamples

\* the statement for every url path ending in two or more slashes, the ones
\* made of slashes alone included
C11_EveryUrlKeepsAllButOne ==
  /\ (Looked /\ TrailingSlashes(call.arg) >= 2) => KeepsAllButOne(call.arg)
  /\ UsersTrailingExamples

\* findMatch("/users//") answered "/users/:userId" with the five routes
C11_Witness ==
  /\ Looked
  /\ FiveRegistered
  /\ call.arg = <<Slash, "u", Slash, Slash>>
  /\ call.ret = <<Slash, "u", Slash, Colon, "i">>
  /\ nodes[call.node].value = <<Colon, "i">>

\* a sequence without its k-th element
RemoveAt(seq, k) == SubSeq(seq, 1, k - 1) \o SubSeq(seq, k + 1, Len(seq))

\* the positions of the empty segments of url path u that have a segment on
\* either side
MidEmpty(u) ==
  LET us == SplitPathSegments(u)
  IN  {k \in 2..(Len(us) - 1) : us[k] = <<>>}

\* the url path u without its k-th segment
WithoutSegment(u, k) == JoinSlash(Tail(RemoveAt(SplitPathSegments(u), k)))

\* the lookups of the "empty paths" test named by the claim
UsersEmptyExamples ==
  (Looked /\ FiveRegistered) =>
    /\ call.arg = <<Slash, "u", Slash, Slash, "f">> =>
          call.ret = <<Slash, "u", Slash, Colon, "i", Slash, "f">>
    /\ call.arg = <<Slash, "u", Slash, "A", Slash, Slash, "f">> =>
          call.ret = Undefined

(***************************************************************************)
(* C12.  An empty segment in the middle of a url path is a segment: the    *)
(* route answering the url has a wildcard or an empty literal at that      *)
(* position and is never the answer to the url without the empty segment.  *)
(* With the five routes registered, findMatch("/users//friends") is        *)
(* "/users/:userId/friends" and findMatch("/users/Alice//friends") is      *)
(* undefined.                                                              *)
(***************************************************************************)
C12_MidEmptySegmentsCount ==
  /\ (Looked /\ call.ret # Undefined) =>
        \A k \in MidEmpty(call.arg) :
          /\ call.node # 0
          /\ LET v == NodeSegments(nodes, call.node)[k]
             IN  StartsWithColon(v) \/ v = <<>>
          /\ call.node # FindMatchNode(nodes, WithoutSegment(call.arg, k))
          /\ call.ret # FindMatchOp(nodes, WithoutSegment(call.arg, k))
  /\ UsersEmptyExamples

\* findMatch("/users//friends") with "/users/friends" registered as well
C12_Witness ==
  /\ Looked
  /\ call.arg = <<Slash, "u", Slash, Slash, "f">>
  /\ MidEmpty(call.arg) = {3}
  /\ <<Slash, "u", Slash, "f">> \in Range(registered)
  /\ FindMatchOp(nodes, WithoutSegment(call.arg, 3)) = <<Slash, "u", Slash, "f">>
  /\ call.ret = <<Slash, "u", Slash, Colon, "i", Slash, "f">>

(***************************************************************************)
(* Kyuko: registration of handlers, and the handling of one request at a   *)
(* time.  A route handler, a middleware or an error handler is a name; what *)
(* it does when called is chosen when it is called: it returns ("pass"),   *)
(* it calls res.send() and returns ("send"), it throws ("throw"), or, a    *)
(* route handler only, it returns a promise that rejects ("reject").       *)
(***************************************************************************)
MiddlewareOutcomes == {"pass", "send", "throw"}
HandlerOutcomes == {"pass", "send", "throw", "reject"}

\* KyukoResponseImpl.status, and KyukoResponseImpl.send of a response that
\* was not sent before
Status(r, statusCode) == [r EXCEPT !.statusCode = statusCode]
\* send that does not set #sent
Send_NoFlag(r) == [r EXCEPT !.responses = Append(@, r.statusCode)]

Send(r) == [r EXCEPT !.sent = TRUE, !.responses = Append(@, r.statusCode)]

\* what a callback did, given what it set out to do: res.send() throws when
\* the response was sent before
Effect(outcome) == IF outcome = "send" /\ res.sent THEN "throw" ELSE outcome

\* invokeHandlers that does not wait for the promise of the callback
Settled_NoAwait(r) == TRUE

\* the awaited promise of the callback called last has settled
Settled(r) == ~r.pending

\* app.get, app.post, app.put, app.delete, app.patch and app.head
Register(method, routePath, handler, limit) ==
  /\ run.pc = "idle"
  /\ Len(registered) < limit
  /\ nodes' = AddRoutePathTree(nodes, routePath)
  /\ registered' = Append(registered, routePath)
  /\ call' = [op |-> "addRoutePath", arg |-> routePath, ret |-> Undefined, node |-> 0]
  /\ customHandlers' =
       [customHandlers EXCEPT ![method] = SetEntry(@, routePath, handler)]
  /\ lastRoute' = [op |-> "method", method |-> method, routePath |-> routePath,
                   handler |-> handler]
  /\ UNCHANGED <<defaultHandler, middleware, errorHandlers, req, res, run, log, handling>>

\* the methods app.all stores the handler under
AllMethods == {"GET", "POST", "PUT", "DELETE"}

\* app.all
All(routePath, handler, limit) ==
  /\ run.pc = "idle"
  /\ Len(registered) < limit
  /\ nodes' = AddRoutePathTree(nodes, routePath)
  /\ registered' = Append(registered, routePath)
  /\ call' = [op |-> "addRoutePath", arg |-> routePath, ret |-> Undefined, node |-> 0]
  /\ customHandlers' =
       [m \in Methods |->
          IF m \in AllMethods THEN SetEntry(customHandlers[m], routePath, handler)
          ELSE customHandlers[m]]
  /\ lastRoute' = [op |-> "all", method |-> "", routePath |-> routePath,
                   handler |-> handler]
  /\ UNCHANGED <<defaultHandler, middleware, errorHandlers, req, res, run, log, handling>>

\* app.default
Default(handler) ==
  /\ run.pc = "idle"
  /\ defaultHandler' = handler
  /\ UNCHANGED <<nodes, registered, call, customHandlers, middleware, errorHandlers,
                 req, res, run, log, lastRoute, handling>>

\* app.use
Use(mw, limit) ==
  /\ run.pc = "idle"
  /\ Len(middleware) < limit
  /\ middleware' = Append(middleware, mw)
  /\ UNCHANGED <<nodes, registered, call, customHandlers, defaultHandler, errorHandlers,
                 req, res, run, log, lastRoute, handling>>

\* app.error
OnError(errorHandler, limit) ==
  /\ run.pc = "idle"
  /\ Len(errorHandlers) < limit
  /\ errorHandlers' = Append(errorHandlers, errorHandler)
  /\ UNCHANGED <<nodes, registered, call, customHandlers, defaultHandler, middleware,
                 req, res, run, log, lastRoute, handling>>

\* handleRequest that picks the handler of the route path under any method
SelectHandler_AnyMethod(method, routePath) ==
  LET having == {m \in Methods : routePath \in DOMAIN customHandlers[m]}
  IN  IF routePath # Undefined /\ having # {}
      THEN customHandlers[CHOOSE m \in having : TRUE][routePath]
      ELSE defaultHandler

\* the handler handleRequest picks for a request of the method, given what
\* findMatch returned
SelectHandler(method, routePath) ==
  LET custom == IF method \in Methods THEN customHandlers[method] ELSE Empty
  IN  IF routePath # Undefined /\ routePath \in DOMAIN custom
      THEN custom[routePath]
      ELSE defaultHandler

\* handleRequest with a lookup that walks the tree with findOrCreateChild
HandleRequest_Creating(method, pathname) ==
  /\ run.pc \in {"idle", "done"}
  /\ LET node      == FindMatchNode(nodes, pathname)
         routePath == MatchResult(nodes, node)
     IN  /\ call' = [op |-> "findMatch", arg |-> pathname, ret |-> routePath, node |-> node]
         /\ req' = [NewRequest(method, pathname) EXCEPT
                      !.params = IF routePath # Undefined
                                 THEN CreatePathParams(routePath, pathname)
                                 ELSE Empty]
         /\ run' = [pc |-> "middleware", idx |-> 0, pending |-> FALSE, thrown |-> FALSE,
                    handler |-> SelectHandler(method, routePath)]
  /\ nodes' = Descend(nodes, 1, SplitPathSegments(pathname), 1).nodes
  /\ res' = NewResponse
  /\ log' = <<>>
  /\ UNCHANGED <<registered, customHandlers, defaultHandler, middleware,
                 errorHandlers, lastRoute, handling>>

\* handleFetchEvent and handleRequest, up to the call of invokeHandlers
HandleRequest(method, pathname) ==
  /\ run.pc \in {"idle", "done"}
  /\ LET node      == FindMatchNode(nodes, pathname)
         routePath == MatchResult(nodes, node)
     IN  /\ call' = [op |-> "findMatch", arg |-> pathname, ret |-> routePath, node |-> node]
         /\ req' = [NewRequest(method, pathname) EXCEPT
                      !.params = IF routePath # Undefined
                                 THEN CreatePathParams(routePath, pathname)
                                 ELSE Empty]
         /\ run' = [pc |-> "middleware", idx |-> 0, pending |-> FALSE, thrown |-> FALSE,
                    handler |-> SelectHandler(method, routePath)]
  /\ res' = NewResponse
  /\ log' = <<>>
  /\ UNCHANGED <<nodes, registered, customHandlers, defaultHandler, middleware,
                 errorHandlers, lastRoute, handling>>

\* invokeHandlers' position behind a throw in its first try block
Caught == [run EXCEPT !.pc = "errorHandlers", !.idx = 0, !.pending = FALSE, !.thrown = FALSE]

\* invokeHandlers: the call middleware(req, res) of the for loop.  res.send()
\* throws when the response was sent already.
CallMiddleware(outcome) ==
  /\ run.pc = "middleware"
  /\ Settled(run)
  /\ run.idx < Len(middleware)
  /\ res' = IF Effect(outcome) = "send" THEN Send(res) ELSE res
  /\ run' = [run EXCEPT !.idx = @ + 1, !.pending = TRUE,
                        !.thrown = (Effect(outcome) = "throw")]
  /\ log' = Append(log, <<"middleware", middleware[run.idx + 1], Effect(outcome)>>)
  /\ UNCHANGED <<nodes, registered, call, customHandlers, defaultHandler, middleware,
                 errorHandlers, req, lastRoute, handling>>

\* invokeHandlers: await middleware(req, res) resumes, with the value or by
\* throwing into the catch block
AwaitMiddleware ==
  /\ run.pc = "middleware"
  /\ run.pending
  /\ run' = IF run.thrown THEN Caught ELSE [run EXCEPT !.pending = FALSE]
  /\ log' = Append(log, <<"middleware", middleware[run.idx], "settled">>)
  /\ UNCHANGED <<nodes, registered, call, customHandlers, defaultHandler, middleware,
                 errorHandlers, req, res, lastRoute, handling>>

\* what the handler may do: the default handler of the constructor always
\* calls res.status(404).send()
OutcomesOf(handler) == IF handler = NotFound THEN {"send"} ELSE HandlerOutcomes

\* invokeHandlers: the call handler(req, res) behind the for loop; it is not
\* awaited, so a promise that rejects is not caught
CallHandler(outcome) ==
  /\ run.pc = "middleware"
  /\ Settled(run)
  /\ run.idx = Len(middleware)
  /\ outcome \in OutcomesOf(run.handler)
  /\ LET r1 == IF run.handler = NotFound THEN Status(res, 404) ELSE res
     IN  /\ res' = IF Effect(outcome) = "send" THEN Send(r1) ELSE r1
         /\ run' = IF Effect(outcome) = "throw" THEN Caught ELSE [run EXCEPT !.pc = "done"]
  /\ log' = Append(log, <<"handler", run.handler, Effect(outcome)>>)
  /\ UNCHANGED <<nodes, registered, call, customHandlers, defaultHandler, middleware,
                 errorHandlers, req, lastRoute, handling>>

\* invokeHandlers: the call errorHandler(err1, req, res) of the second for loop
CallErrorHandler(outcome) ==
  /\ run.pc = "errorHandlers"
  /\ Settled(run)
  /\ run.idx < Len(errorHandlers)
  /\ res' = IF Effect(outcome) = "send" THEN Send(res) ELSE res
  /\ run' = [run EXCEPT !.idx = @ + 1, !.pending = TRUE,
                        !.thrown = (Effect(outcome) = "throw")]
  /\ log' = Append(log, <<"errorHandler", errorHandlers[run.idx + 1], Effect(outcome)>>)
  /\ UNCHANGED <<nodes, registered, call, customHandlers, defaultHandler, middleware,
                 errorHandlers, req, lastRoute, handling>>

\* invokeHandlers: await errorHandler(err1, req, res) resumes; a throw ends
\* the loop in the inner catch block
AwaitErrorHandler ==
  /\ run.pc = "errorHandlers"
  /\ run.pending
  /\ run' = IF run.thrown
            THEN [run EXCEPT !.pc = "fallback", !.pending = FALSE, !.thrown = FALSE]
            ELSE [run EXCEPT !.pending = FALSE]
  /\ log' = Append(log, <<"errorHandler", errorHandlers[run.idx], "settled">>)
  /\ UNCHANGED <<nodes, registered, call, customHandlers, defaultHandler, middleware,
                 errorHandlers, req, res, lastRoute, handling>>

\* invokeHandlers: if (!res.wasSent()) res.status(500).send(), behind the
\* error handlers
Fallback ==
  /\ \/ run.pc = "fallback"
     \/ run.pc = "errorHandlers" /\ Settled(run) /\ run.idx = Len(errorHandlers)
  /\ res' = IF res.sent THEN res ELSE Send(Status(res, 500))
  /\ run' = [run EXCEPT !.pc = "done"]
  /\ UNCHANGED <<nodes, registered, call, customHandlers, defaultHandler, middleware,
                 errorHandlers, req, log, lastRoute, handling>>

(***************************************************************************)
(* SpecParams: GET handlers on the route paths of SpecSeg, and GET         *)
(* requests to its url paths.                                              *)
(***************************************************************************)
NextParams ==
  \/ \E routePath \in SegRoutes \cup SlashRoutes :
        Register("GET", routePath, "h1", MaxParamRoutes)
  \/ \E urlPath \in SegUrls \cup SlashUrls : HandleRequest("GET", urlPath)
  \/ \E outcome \in HandlerOutcomes : CallHandler(outcome)
  \/ Fallback

SpecParams == Init /\ [][NextParams]_vars

\* a request has been routed: findMatch answered its url path with a route
Routed == run.pc # "idle" /\ Looked /\ call.arg = req.path /\ call.ret # Undefined

\* the positions of the wildcard segments of route path r
WildcardPositions(r) ==
  {i \in 1..Len(SplitPathSegments(r)) : StartsWithColon(SplitPathSegments(r)[i])}

\* the last position at which route path r has the wildcard named key
LastPosition(r, key) ==
  CHOOSE i \in WildcardPositions(r) :
    /\ Substring1(SplitPathSegments(r)[i]) = key
    /\ \A j \in WildcardPositions(r) :
         Substring1(SplitPathSegments(r)[j]) = key => j <= i

\* createPathParams("/users/:userId/friends/:friendId",
\* "/users/Alice/friends/Bob") is {userId: "Alice", friendId: "Bob"}
AliceAndBob ==
  LET params == CreatePathParams(UsersRoutes[5],
                                 <<Slash, "u", Slash, "A", Slash, "f", Slash, "B">>)
  IN  /\ DOMAIN params = {<<"i">>, <<"j">>}
      /\ params[<<"i">>] = <<"A">>
      /\ params[<<"j">>] = <<"B">>

(***************************************************************************)
(* C13.  When findMatch(u) is r, createPathParams(r, u) has exactly the    *)
(* names of the wildcard segments of r as keys, each bound to the segment  *)
(* of u at the position of the last wildcard of that name (so, when the    *)
(* names differ, at the position of its wildcard); a route without         *)
(* wildcards gives the empty mapping.                                      *)
(***************************************************************************)
C13_ParamsOfTheWildcards ==
  /\ Routed =>
        LET us == SplitPathSegments(req.path)
        IN  /\ DOMAIN req.params =
                 {Substring1(SplitPathSegments(call.ret)[i]) : i \in WildcardPositions(call.ret)}
            /\ \A key \in DOMAIN req.params :
                 /\ LastPosition(call.ret, key) <= Len(us)
                 /\ req.params[key] = us[LastPosition(call.ret, key)]
            /\ ~HasWildcard(call.ret) => req.params = Empty
  /\ AliceAndBob

\* the statement with every wildcard segment bound at its own position
C13_EveryWildcardAtItsPosition ==
  /\ Routed =>
        LET rs == SplitPathSegments(call.ret)
            us == SplitPathSegments(req.path)
        IN  /\ DOMAIN req.params = {Substring1(rs[i]) : i \in WildcardPositions(call.ret)}
            /\ \A i \in WildcardPositions(call.ret) :
                 req.params[Substring1(rs[i])] = ElementAt(us, i)
  /\ AliceAndBob

\* a request routed to a route with two wildcards of different names
C13_Witness ==
  /\ Routed
  /\ Cardinality(WildcardPositions(call.ret)) = 2
  /\ Cardinality(DOMAIN req.params) = 2
  /\ \E key \in DOMAIN req.params : req.params[key] = <<"b">>

(***************************************************************************)
(* C14.  Whenever findMatch(u) returns a route path r, splitPathSegments   *)
(* gives r and u the same number of segments.                              *)
(***************************************************************************)
C14_SameSegmentCount ==
  (Looked /\ call.ret # Undefined) =>
    Len(SplitPathSegments(call.ret)) = Len(SplitPathSegments(call.arg))

(***************************************************************************)
(* C15.  addRoutePath is idempotent: a call with a route path that was     *)
(* given to addRoutePath before creates no node and changes no height, no  *)
(* order of children and no terminal flag, so every findMatch answers as   *)
(* it did before the call.                                                 *)
(***************************************************************************)
C15_AddRoutePathIdempotent ==
  [][ ( /\ Len(registered') = Len(registered) + 1
        /\ \E i \in Registrations : registered[i] = call'.arg )
      => ( /\ nodes' = nodes
           /\ \A urlPath \in SegUrls \cup SlashUrls :
                FindMatchOp(nodes', urlPath) = FindMatchOp(nodes, urlPath) ) ]_vars

\* a route path registered, another one registered, and the first one again:
\* the tree is the tree of the first two calls
C15_Witness ==
  /\ call.op = "addRoutePath"
  /\ Len(registered) = 3
  /\ registered[3] = registered[1]
  /\ registered[2] # registered[1]
  /\ HasWildcard(registered[1])
  /\ Len(SplitPathSegments(registered[1])) = 3
  /\ nodes = AddRoutePathTree(AddRoutePathTree(<<CreateRoot>>, registered[1]), registered[2])

(***************************************************************************)
(* SpecApp: route handlers registered on a literal route path written with *)
(* and without a trailing slash and on a wildcard route path, then         *)
(* requests of every method; the handlers respond.                         *)
(***************************************************************************)
Handlers == {"h1", "h2"}

AppPaths == { <<Slash, "a">>, <<Slash, "a", Slash>>, <<Slash, Colon, "i">> }

AppUrls == { <<Slash, "a">>, <<Slash, "b">>, <<Slash, "a", Slash, "b">> }

\* the methods app.get and app.patch register under
AppMethods == {"GET", "PATCH"}

NextApp ==
  \/ \E method \in AppMethods, routePath \in AppPaths, handler \in Handlers :
        Register(method, routePath, handler, MaxAppRoutes)
  \/ \E routePath \in AppPaths, handler \in Handlers :
        All(routePath, handler, MaxAppRoutes)
  \/ Default("h2")
  \/ \E method \in Methods, urlPath \in AppUrls : HandleRequest(method, urlPath)
  \/ CallHandler("send")

SpecApp == Init /\ [][NextApp]_vars

(***************************************************************************)
(* SpecRun: middleware, error handlers and one GET handler on a wildcard   *)
(* route path, then GET requests that the route matches or does not match; *)
(* every callback may return, respond or throw.                            *)
(***************************************************************************)
Middlewares == {"m1", "m2"}
ErrorHandlers == {"e1", "e2"}

RunUrls == { <<Slash, "b">>, <<Slash, "a", Slash, "b">> }

NextRun ==
  \/ \E mw \in Middlewares : Use(mw, MaxMiddleware)
  \/ \E errorHandler \in ErrorHandlers : OnError(errorHandler, MaxErrorHandlers)
  \/ Register("GET", <<Slash, Colon, "i">>, "h1", MaxRunRoutes)
  \/ Default("h2")
  \/ \E urlPath \in RunUrls : HandleRequest("GET", urlPath)
  \/ \E outcome \in MiddlewareOutcomes : CallMiddleware(outcome)
  \/ AwaitMiddleware
  \/ \E outcome \in HandlerOutcomes : CallHandler(outcome)
  \/ \E outcome \in MiddlewareOutcomes : CallErrorHandler(outcome)
  \/ AwaitErrorHandler
  \/ Fallback

SpecRun == Init /\ [][NextRun]_vars

(***************************************************************************)
(* Vocabulary of the properties of a request.                              *)
(***************************************************************************)
\* a request has been taken up, and findMatch has been asked its url path
Handling == run.pc # "idle" /\ Looked /\ call.arg = req.path

\* the positions in the log of the calls of callbacks of a kind, and of the
\* awaits that resumed
CallsOf(kind) == {k \in 1..Len(log) : log[k][1] = kind /\ log[k][3] # "settled"}
SettledOf(kind) == {k \in 1..Len(log) : log[k][1] = kind /\ log[k][3] = "settled"}

\* a callback of the kind threw, or its promise rejected
Threw(kind) == \E k \in CallsOf(kind) : log[k][3] \in {"throw", "reject"}

\* an error handler has been called, or invokeHandlers is in its catch block
TreatedAsError ==
  \/ run.pc \in {"errorHandlers", "fallback"}
  \/ CallsOf("errorHandler") # {}
  \/ 500 \in Range(res.responses)

(***************************************************************************)
(* C16.  When no registered route path matches the url path of a request,  *)
(* the default handler is selected; the default handler of the constructor *)
(* sends a response with status 404, and when no middleware has thrown the *)
(* request is not treated as an error: no error handler runs and no 500 is *)
(* sent.                                                                   *)
(***************************************************************************)
C16_NoMatchIsNotAnError ==
  (Handling /\ call.ret = Undefined) =>
    /\ run.handler = defaultHandler
    /\ (defaultHandler = NotFound /\ ~Threw("middleware")) =>
          /\ ~TreatedAsError
          /\ run.pc = "done" => res.responses = <<404>>

\* the same for the requests during which no middleware has sent a response
C16_NoMatchWithoutEarlyResponse ==
  (Handling /\ call.ret = Undefined) =>
    /\ run.handler = defaultHandler
    /\ ( /\ defaultHandler = NotFound
         /\ ~Threw("middleware")
         /\ \A k \in CallsOf("middleware") : log[k][3] # "send" ) =>
          /\ ~TreatedAsError
          /\ run.pc = "done" => res.responses = <<404>>

\* findMatch answered the request with the node at which the route path of
\* the latest registration ends
MatchedToLastRoute ==
  /\ Handling
  /\ call.node # 0
  /\ call.node = NodeOfRoute(nodes, lastRoute.routePath)

\* the route handlers invokeHandlers has called for the request
HandlersCalled == {log[k][2] : k \in CallsOf("handler")}

(***************************************************************************)
(* C17.  For a route path string p registered with app.get(p, h) and a GET *)
(* request whose url path findMatch matches to the route of p, the handler *)
(* selected is h.                                                          *)
(***************************************************************************)
C17_GetHandlerSelected ==
  ( /\ MatchedToLastRoute
    /\ lastRoute.op = "method"
    /\ lastRoute.method = "GET"
    /\ req.method = "GET" ) =>
      run.handler = lastRoute.handler

\* the same for the route path strings that findMatch returns as registered
C17_GetHandlerOfReturnedPath ==
  ( /\ MatchedToLastRoute
    /\ lastRoute.op = "method"
    /\ lastRoute.method = "GET"
    /\ req.method = "GET"
    /\ call.ret = lastRoute.routePath ) =>
      run.handler = lastRoute.handler

(***************************************************************************)
(* C18.  One route handler is kept per route path and method: after        *)
(* app.METHOD(p, h1), ..., app.METHOD(p, hn) a matching request of that    *)
(* method is given hn, and hn is the one route handler called for it.      *)
(***************************************************************************)
C18_LastHandlerOnly ==
  ( /\ MatchedToLastRoute
    /\ lastRoute.op = "method"
    /\ req.method = lastRoute.method ) =>
      /\ run.handler = lastRoute.handler
      /\ HandlersCalled \subseteq {lastRoute.handler}
      /\ Cardinality(CallsOf("handler")) = IF run.pc = "done" THEN 1 ELSE 0

\* the same for the route path strings that findMatch returns as registered
C18_LastHandlerOfReturnedPath ==
  ( /\ MatchedToLastRoute
    /\ lastRoute.op = "method"
    /\ req.method = lastRoute.method
    /\ call.ret = lastRoute.routePath ) =>
      /\ run.handler = lastRoute.handler
      /\ HandlersCalled \subseteq {lastRoute.handler}
      /\ Cardinality(CallsOf("handler")) = IF run.pc = "done" THEN 1 ELSE 0

(***************************************************************************)
(* C19.  app.all(routePath, handler) registers the handler for a request   *)
(* of any of the methods GET, POST, PUT, DELETE, PATCH and HEAD to a url   *)
(* path that matches routePath (here: for the route paths findMatch        *)
(* returns as registered).                                                 *)
(***************************************************************************)
C19_AllHandlesEveryMethod ==
  ( /\ MatchedToLastRoute
    /\ lastRoute.op = "all"
    /\ call.ret = lastRoute.routePath
    /\ req.method \in Methods ) =>
      run.handler = lastRoute.handler

\* the same for the four methods app.all stores the handler under
C19_AllHandlesFourMethods ==
  ( /\ MatchedToLastRoute
    /\ lastRoute.op = "all"
    /\ call.ret = lastRoute.routePath
    /\ req.method \in AllMethods ) =>
      run.handler = lastRoute.handler

\* the calls of middleware in the log, in the order they were made
IsMiddlewareCall(event) == event[1] = "middleware" /\ event[3] # "settled"
MiddlewareCalls == SelectSeq(log, IsMiddlewareCall)

(***************************************************************************)
(* C20.  For every request the middleware are called in the order of       *)
(* their registration, each one only after the await of the one before has *)
(* resumed, and the middleware phase is left before all of them have run   *)
(* only when one has thrown; a response sent by a middleware does not stop *)
(* the call of the next one.                                               *)
(***************************************************************************)
C20_MiddlewareInOrder ==
  run.pc # "idle" =>
    /\ Len(MiddlewareCalls) <= Len(middleware)
    /\ \A j \in 1..Len(MiddlewareCalls) : MiddlewareCalls[j][2] = middleware[j]
    /\ \A k \in CallsOf("middleware") :
         /\ Cardinality({c \in CallsOf("middleware") : c < k}) =
              Cardinality({c \in SettledOf("middleware") : c < k})
         /\ \A c \in CallsOf("middleware") : c < k => log[c][3] # "throw"
    /\ (run.pc # "middleware" /\ Len(MiddlewareCalls) < Len(middleware)) =>
         Threw("middleware")
    /\ CallsOf("handler") # {} =>
         /\ Len(MiddlewareCalls) = Len(middleware)
         /\ Cardinality(SettledOf("middleware")) = Len(middleware)
         /\ ~Threw("middleware")
    /\ (run.pc = "middleware" /\ ~run.pending /\ run.idx < Len(middleware)) =>
         ENABLED CallMiddleware("pass")

\* two middleware, registered m2 before m1; m2 has sent the response, and m1
\* has been called behind it and has completed
C20_Witness ==
  /\ run.pc = "middleware"
  /\ middleware = <<"m2", "m1">>
  /\ log = << <<"middleware", "m2", "send">>, <<"middleware", "m2", "settled">>,
              <<"middleware", "m1", "pass">>, <<"middleware", "m1", "settled">> >>
  /\ res.sent

\* a middleware has sent the response of the request
RespondedEarly == \E c \in CallsOf("middleware") : log[c][3] = "send"

(***************************************************************************)
(* C21.  If a middleware responds early (the response has been sent when   *)
(* the middleware phase ends), the route handler assigned to the request   *)
(* is not run.                                                             *)
(***************************************************************************)
C21_NoHandlerAfterEarlyResponse ==
  (run.pc # "idle" /\ RespondedEarly) => CallsOf("handler") = {}

\* the calls of error handlers in the log, in the order they were made
IsErrorHandlerCall(event) == event[1] = "errorHandler" /\ event[3] # "settled"
ErrorHandlerCalls == SelectSeq(log, IsErrorHandlerCall)

\* the error handlers have been called in the order of their registration,
\* each after the one before has completed, all of them unless one threw
ErrorHandlersRan ==
  /\ Len(ErrorHandlerCalls) <= Len(errorHandlers)
  /\ \A j \in 1..Len(ErrorHandlerCalls) : ErrorHandlerCalls[j][2] = errorHandlers[j]
  /\ \A k \in CallsOf("errorHandler") :
       /\ Cardinality({c \in CallsOf("errorHandler") : c < k}) =
            Cardinality({c \in SettledOf("errorHandler") : c < k})
       /\ \A c \in CallsOf("errorHandler") : c < k => log[c][3] # "throw"
  /\ Len(ErrorHandlerCalls) < Len(errorHandlers) => Threw("errorHandler")

(***************************************************************************)
(* C22.  Whenever a middleware or the route handler throws, or the promise *)
(* it returns rejects, the error handlers are called in the order of their *)
(* registration until all have completed or one throws, and then a 500 is  *)
(* sent if no response was sent: the request ends with a response.         *)
(***************************************************************************)
C22_ErrorsEndWithResponse ==
  (run.pc = "done" /\ (Threw("middleware") \/ Threw("handler"))) =>
    /\ ErrorHandlersRan
    /\ res.sent
    /\ Len(res.responses) = 1

\* the same for the errors thrown by a middleware or thrown synchronously by
\* the route handler
C22_CaughtErrorsEndWithResponse ==
  ( /\ run.pc = "done"
    /\ \/ Threw("middleware")
       \/ \E k \in CallsOf("handler") : log[k][3] = "throw" ) =>
    /\ ErrorHandlersRan
    /\ res.sent
    /\ Len(res.responses) = 1

(***************************************************************************)
(* Kyuko with handleError as a method of its own: invokeHandlers calls it  *)
(* from its two catch blocks and does not await it, and awaits the route   *)
(* handler.  A step runs the code from the point where an await resumes to *)
(* the next await or the return, as the event loop does.                   *)
(***************************************************************************)

\* what a route handler or an error handler sets out to do: "sendLater" is a
\* callback that awaits and then calls res.send()
LateOutcomes == {"pass", "send", "throw", "sendLater"}
LateOutcomesOf(handler) == IF handler = NotFound THEN {"send"} ELSE LateOutcomes

\* the response and the log of the request, as the steps below pass them on
Now == [res |-> res, log |-> log]

\* the call callback(req, res), up to the promise it returns
Invoke(st, kind, name, outcome) ==
  LET r1     == IF name = NotFound THEN Status(st.res, 404) ELSE st.res
      effect == IF outcome = "send" /\ r1.sent THEN "throw" ELSE outcome
  IN  [res    |-> IF effect = "send" THEN Send(r1) ELSE r1,
       log    |-> Append(st.log, <<kind, name, effect>>),
       effect |-> effect]

\* the promise of the callback settles: a callback that sends later calls
\* res.send() now, which throws when the response was sent in between
Resume(st, kind, name, effect) ==
  IF effect = "sendLater"
  THEN IF st.res.sent
       THEN [res |-> st.res, log |-> Append(st.log, <<kind, name, "rejected">>),
             thrown |-> TRUE]
       ELSE [res |-> Send(st.res), log |-> Append(st.log, <<kind, name, "sent">>),
             thrown |-> FALSE]
  ELSE [res |-> st.res, log |-> Append(st.log, <<kind, name, "settled">>),
        thrown |-> effect = "throw"]

\* handleError: if (!res.wasSent()) res.status(500).send(), and the return
Fallback500(st) ==
  [res   |-> IF st.res.sent THEN st.res ELSE Send(Status(st.res, 500)),
   log   |-> st.log,
   tasks |-> <<>>]

\* handleError from the iteration behind error handler number idx of its for
\* loop, up to the await of the next error handler or to the return
HandleErrorFrom(st, idx, outcome) ==
  IF idx < Len(errorHandlers)
  THEN LET c == Invoke(st, "errorHandler", errorHandlers[idx + 1], outcome)
       IN  [res   |-> c.res,
            log   |-> c.log,
            tasks |-> << [idx |-> idx + 1, effect |-> c.effect] >>]
  ELSE Fallback500(st)

\* invokeHandlers has returned
Returned ==
  [pc |-> "done", idx |-> run.idx, pending |-> FALSE, thrown |-> FALSE,
   handler |-> run.handler]

\* invokeHandlers: its second try block, up to await routeHandler(req, res)
RouteStep(st, outcome) ==
  IF st.res.sent
  THEN [res |-> st.res, log |-> st.log, run |-> Returned]
  ELSE LET c == Invoke(st, "handler", run.handler, outcome)
       IN  [res |-> c.res,
            log |-> c.log,
            run |-> [pc |-> "handler", idx |-> run.idx, pending |-> TRUE,
                     thrown |-> FALSE, handler |-> run.handler,
                     effect |-> c.effect]]

\* handleFetchEvent, up to the call of invokeHandlers; the model handles one
\* request at a time
HandleFetchEvent(method, pathname) ==
  /\ handling = <<>>
  /\ HandleRequest(method, pathname)

\* invokeHandlers: await middleware(req, res) resumes.  When it throws, the
\* catch block calls handleError, which runs up to its first await, and
\* invokeHandlers goes on with its second try block.
ResumeMiddleware(errorOutcome, routeOutcome) ==
  /\ run.pc = "middleware"
  /\ run.pending
  /\ routeOutcome \in LateOutcomesOf(run.handler)
  /\ LET s == Resume(Now, "middleware", middleware[run.idx],
                     IF run.thrown THEN "throw" ELSE "pass")
     IN  IF s.thrown
         THEN LET e == HandleErrorFrom(s, 0, errorOutcome)
                  r == RouteStep(e, routeOutcome)
              IN  /\ res' = r.res
                  /\ log' = r.log
                  /\ run' = r.run
                  /\ handling' = e.tasks
         ELSE /\ log' = s.log
              /\ run' = [run EXCEPT !.pending = FALSE]
              /\ UNCHANGED <<res, handling>>
  /\ UNCHANGED <<nodes, registered, call, customHandlers, defaultHandler, middleware,
                 errorHandlers, req, lastRoute>>

\* invokeHandlers: the second try block behind a for loop that has completed
InvokeRouteHandler(outcome) ==
  /\ run.pc = "middleware"
  /\ Settled(run)
  /\ run.idx = Len(middleware)
  /\ outcome \in LateOutcomesOf(run.handler)
  /\ LET r == RouteStep(Now, outcome)
     IN  /\ res' = r.res
         /\ log' = r.log
         /\ run' = r.run
  /\ UNCHANGED <<nodes, registered, call, customHandlers, defaultHandler, middleware,
                 errorHandlers, req, lastRoute, handling>>

\* invokeHandlers: await routeHandler(req, res) resumes; when it throws, the
\* catch block calls handleError, which runs up to its first await
ResumeRouteHandler(errorOutcome) ==
  /\ run.pc = "handler"
  /\ run.pending
  /\ LET s == Resume(Now, "handler", run.handler, run.effect)
         e == IF s.thrown THEN HandleErrorFrom(s, 0, errorOutcome)
                          ELSE [res |-> s.res, log |-> s.log, tasks |-> <<>>]
     IN  /\ res' = e.res
         /\ log' = e.log
         /\ handling' = handling \o e.tasks
  /\ run' = Returned
  /\ UNCHANGED <<nodes, registered, call, customHandlers, defaultHandler, middleware,
                 errorHandlers, req, lastRoute>>

\* handleError: await errorHandler(err, req, res) resumes, in the call of
\* handleError at position i; a throw ends the for loop in the catch block
ResumeHandleError(i, outcome) ==
  /\ i \in 1..Len(handling)
  /\ LET t == handling[i]
         s == Resume(Now, "errorHandler", errorHandlers[t.idx], t.effect)
         e == IF s.thrown THEN Fallback500(s) ELSE HandleErrorFrom(s, t.idx, outcome)
     IN  /\ res' = e.res
         /\ log' = e.log
         /\ handling' = SubSeq(handling, 1, i - 1) \o e.tasks \o
                          SubSeq(handling, i + 1, Len(handling))
  /\ UNCHANGED <<nodes, registered, call, customHandlers, defaultHandler, middleware,
                 errorHandlers, req, run, lastRoute>>

(***************************************************************************)
(* SpecHandleError: the requests of SpecRun, handled by the Kyuko with     *)
(* handleError.                                                            *)
(***************************************************************************)
NextHandleError ==
  \/ \E mw \in Middlewares : Use(mw, MaxMiddleware)
  \/ \E errorHandler \in ErrorHandlers : OnError(errorHandler, MaxErrorHandlers)
  \/ Register("GET", <<Slash, Colon, "i">>, "h1", MaxRunRoutes)
  \/ \E urlPath \in RunUrls : HandleFetchEvent("GET", urlPath)
  \/ \E outcome \in MiddlewareOutcomes : CallMiddleware(outcome)
  \/ \E errorOutcome \in LateOutcomes, routeOutcome \in LateOutcomes :
       ResumeMiddleware(errorOutcome, routeOutcome)
  \/ \E outcome \in LateOutcomes : InvokeRouteHandler(outcome)
  \/ \E errorOutcome \in LateOutcomes : ResumeRouteHandler(errorOutcome)
  \/ \E i \in 1..2, outcome \in LateOutcomes : ResumeHandleError(i, outcome)

SpecHandleError == Init /\ [][NextHandleError]_vars

\* the events of the log where a callback of the kind was called
Invoked(kind) ==
  {k \in 1..Len(log) : log[k][1] = kind /\ log[k][3] \in LateOutcomes}

\* an error handler has sent the response, in its call or behind an await
ErrorHandlerResponded ==
  \E k \in 1..Len(log) : log[k][1] = "errorHandler" /\ log[k][3] \in {"send", "sent"}

\* a middleware has thrown
MiddlewareThrew == \E k \in Invoked("middleware") : log[k][3] = "throw"

(***************************************************************************)
(* C23.  In the Kyuko with handleError, if a middleware throws and an      *)
(* error handler responds to the request, in its call or after awaiting,   *)
(* the route handler is not invoked for that request.                      *)
(***************************************************************************)
C23_NoRouteHandlerAfterHandledError ==
  (MiddlewareThrew /\ ErrorHandlerResponded) => Invoked("handler") = {}

\* the same for a first error handler that responds before it returns: the
\* first error handler called for the request has sent the response in its call
C23_NoRouteHandlerAfterSynchronousResponse ==
  ( /\ MiddlewareThrew
    /\ \E k \in Invoked("errorHandler") :
         /\ log[k][3] = "send"
         /\ \A j \in Invoked("errorHandler") : k <= j ) =>
    Invoked("handler") = {}

\* the children of node n, of both containers
ChildrenOf(ns, n) == Range(ns[n].concreteChildren) \cup Range(ns[n].wildcardChildren)

\* every node is at least one higher than each of its children
HeightsOrdered(ns) ==
  \A n \in 1..Len(ns) : \A c \in ChildrenOf(ns, n) : ns[n].height >= 1 + ns[c].height

\* values to create a child with: segments of the routes of SpecUsers, and
\* segments that no route has
ChildValues == { <<>>, <<"u">>, <<"f">>, <<Colon, "i">>, <<"z">>, <<Colon, "z">> }

\* the creation of a child with the value under node n
Creates(n, value) == FindOrCreateChild(nodes, n, value).node > Len(nodes)

(***************************************************************************)
(* C24.  After any sequence of addRoutePath calls every node's height is   *)
(* at least 1 + the height of each of its children, the root's height is   *)
(* at least the number of segments of the longest registered route, and    *)
(* the creation of a node raises the height of no node by more than 1.     *)
(***************************************************************************)
C24_HeightsBoundTheTree ==
  /\ HeightsOrdered(nodes)
  /\ \A i \in Registrations : nodes[1].height >= Len(SplitPathSegments(registered[i]))
  /\ \A n \in 1..Len(nodes), value \in ChildValues :
       LET after == FindOrCreateChild(nodes, n, value).nodes
       IN  /\ HeightsOrdered(after)
           /\ \A a \in 1..Len(nodes) :
                /\ after[a].height >= nodes[a].height
                /\ after[a].height <= nodes[a].height + 1

\* five routes are registered; a node has children of different heights, a
\* child created under the root leaves every height as it is, and a child
\* created under a leaf raises the root
C24_Witness ==
  /\ Len(registered) = MaxUsersRoutes
  /\ call.op = "addRoutePath"
  /\ \E n \in 1..Len(nodes) : \E c, d \in ChildrenOf(nodes, n) :
       nodes[c].height < nodes[d].height
  /\ Creates(1, <<"z">>)
  /\ FindOrCreateChild(nodes, 1, <<"z">>).nodes[1].height = nodes[1].height
  /\ \E n \in 1..Len(nodes) :
       /\ Creates(n, <<"z">>)
       /\ FindOrCreateChild(nodes, n, <<"z">>).nodes[1].height = nodes[1].height + 1

(***************************************************************************)
(* The RoutePathHandler of src/RoutePathHandler.ts: the same tree without  *)
(* heights in its nodes, a height of the whole tree, and a findMatch that  *)
(* keeps every matching child and answers with getFullPath().              *)
(***************************************************************************)

\* #treeHeight after the first k addRoutePath calls
RECURSIVE TreeHeightAfter(_, _)
TreeHeightAfter(routes, k) ==
  IF k = 0 THEN 0
  ELSE LET segments == SplitPathSegments(routes[k])
           before   == TreeHeightAfter(routes, k - 1)
       IN  IF Len(segments) > before THEN Len(segments) ELSE before

\* the inner forEach of findMatch: nextNodes for the frontier currNodes
RECURSIVE AllNextNodes(_, _, _, _)
AllNextNodes(ns, currNodes, k, segment) ==
  IF k > Len(currNodes) THEN <<>>
  ELSE FindMatchingChildren(ns, currNodes[k], segment)
         \o AllNextNodes(ns, currNodes, k + 1, segment)

\* the for loop of findMatch: currNodes after its first k iterations; the
\* loop returns undefined from an empty frontier
RECURSIVE AllFrontierAfter(_, _, _)
AllFrontierAfter(ns, segments, k) ==
  IF k = 0 THEN <<1>>
  ELSE LET currNodes == AllFrontierAfter(ns, segments, k - 1)
       IN  IF Len(currNodes) = 0 THEN currNodes
           ELSE AllNextNodes(ns, currNodes, 1, segments[k])

\* the values of the nodes from below the root down to the node
RECURSIVE ValuesTo(_, _)
ValuesTo(ns, node) ==
  IF ns[node].parent = 0 THEN <<>>
  ELSE Append(ValuesTo(ns, ns[node].parent), ns[node].value)

\* Array.prototype.join("/")
RECURSIVE Join(_)
Join(segs) ==
  IF Len(segs) = 0 THEN <<>>
  ELSE IF Len(segs) = 1 THEN segs[1]
  ELSE segs[1] \o <<Slash>> \o Join(Tail(segs))

\* RoutePathNode.getFullPath
GetFullPath(ns, node) ==
  LET joined == Join(ValuesTo(ns, node))
  IN  IF joined = <<>> THEN <<Slash>> ELSE joined

\* the node findMatch answers with, 0 for none
FindMatchNodeUnpruned(ns, treeHeight, urlPath) ==
  LET segments == SplitPathSegments(urlPath)
  IN  IF treeHeight < Len(segments) THEN 0
      ELSE LET matchedNodes ==
                 Finalists(ns, AllFrontierAfter(ns, segments, Len(segments)))
           IN  IF Len(matchedNodes) = 0 THEN 0 ELSE matchedNodes[1]

\* RoutePathHandler.findMatch of src/RoutePathHandler.ts
FindMatchUnpruned(ns, treeHeight, urlPath) ==
  LET node == FindMatchNodeUnpruned(ns, treeHeight, urlPath)
  IN  IF node = 0 THEN Undefined ELSE GetFullPath(ns, node)

\* #treeHeight of the handler of src/RoutePathHandler.ts given the same calls
TreeHeight == TreeHeightAfter(registered, Len(registered))

(***************************************************************************)
(* C25.  Height pruning does not change results: for every sequence of     *)
(* addRoutePath calls and every url path, findMatch with the height test   *)
(* per child returns the same value as the findMatch that keeps all        *)
(* matching children, filters the terminal nodes at the end and has the    *)
(* guard on the height of the whole tree.                                  *)
(***************************************************************************)
C25_PruningKeepsResults ==
  \A urlPath \in Paths :
    FindMatchOp(nodes, urlPath) = FindMatchUnpruned(nodes, TreeHeight, urlPath)

\* the two answer with the same node of the tree, or both with none
C25_PruningKeepsTheNode ==
  \A urlPath \in Paths :
    FindMatchNode(nodes, urlPath) = FindMatchNodeUnpruned(nodes, TreeHeight, urlPath)

\* the same for the routes and the url paths of the users scenario
C25_PruningKeepsUsersResults ==
  \A urlPath \in UsersUrls :
    /\ FindMatchNode(nodes, urlPath) = FindMatchNodeUnpruned(nodes, TreeHeight, urlPath)
    /\ FindMatchOp(nodes, urlPath) = FindMatchUnpruned(nodes, TreeHeight, urlPath)

\* the nodes at which the segments of some addRoutePath call end
EndsOfRoutes ==
  {n \in 1..Len(nodes) :
     \E i \in Registrations : NodeSegments(nodes, n) = SplitPathSegments(registered[i])}

UsersUserId == <<Slash, "u", Slash, Colon, "i">>

(***************************************************************************)
(* C26.  After any sequence of addRoutePath calls a node is terminal if    *)
(* and only if the segments of some addRoutePath call end at that node:    *)
(* nodes created as prefixes of longer routes are not terminal, so with    *)
(* /users/:userId alone neither /users nor / has a match; and no call      *)
(* clears a terminal flag.                                                 *)
(***************************************************************************)
C26_TerminalIffRouteEnds ==
  /\ [](\A n \in 1..Len(nodes) : nodes[n].isStationaryNode <=> n \in EndsOfRoutes)
  /\ [](registered = <<UsersUserId>> =>
          /\ FindMatchOp(nodes, <<Slash, "u">>) = Undefined
          /\ FindMatchOp(nodes, <<Slash>>) = Undefined
          /\ FindMatchOp(nodes, <<Slash, "u", Slash, "A">>) = UsersUserId)
  /\ [][\A n \in 1..Len(nodes) :
          nodes[n].isStationaryNode => nodes'[n].isStationaryNode]_vars

\* /users/:userId is the only route, and findMatch has answered undefined for
\* /users, the path of a prefix node
C26_Witness ==
  /\ registered = <<UsersUserId>>
  /\ call.op = "findMatch"
  /\ call.arg = <<Slash, "u">>
  /\ call.ret = Undefined
  /\ \E n \in 1..Len(nodes) : n # 1 /\ ~nodes[n].isStationaryNode

\* a route has been registered through a terminal node, which stays terminal
C26_WitnessKept ==
  /\ call.op = "addRoutePath"
  /\ \E n \in EndsOfRoutes : ChildrenOf(nodes, n) # {} /\ nodes[n].isStationaryNode
  /\ Len(registered) = MaxUsersRoutes

\* the step is a request arriving: handleRequest looks up its url path
RequestArrives == run.pc \in {"idle", "done"} /\ run'.pc = "middleware"

Registers == Len(registered') = Len(registered) + 1

(***************************************************************************)
(* C28.  Registering a route affects only the url paths it matches: when   *)
(* route path p does not match url path u (another number of segments, or  *)
(* a literal segment of p that differs from the segment of u), findMatch   *)
(* of u is the same before and after addRoutePath of p; and a url path     *)
(* that has a match has one after every later registration.                *)
(***************************************************************************)
C28_OnlyMatchedPathsAffected ==
  [][ Registers =>
        \A urlPath \in SegUrls \cup SlashUrls :
          /\ ~RouteMatches(call'.arg, urlPath) =>
               FindMatchOp(nodes', urlPath) = FindMatchOp(nodes, urlPath)
          /\ FindMatchOp(nodes, urlPath) # Undefined =>
               FindMatchOp(nodes', urlPath) # Undefined ]_vars

\* the third route has been registered: a url path it does not match has the
\* match it had, and a url path it matches is answered with it
C28_Witness ==
  /\ call.op = "addRoutePath"
  /\ Len(registered) = MaxSegRoutes
  /\ \E urlPath \in SegUrls :
       /\ ~RouteMatches(call.arg, urlPath)
       /\ FindMatchOp(nodes, urlPath) # Undefined
       /\ FindMatchOp(nodes, urlPath) # NormalPath(call.arg)
  /\ \E urlPath \in SegUrls :
       /\ RouteMatches(call.arg, urlPath)
       /\ FindMatchNode(nodes, urlPath) = NodeOfRoute(nodes, call.arg)
       /\ \E i \in 1..(MaxSegRoutes - 1) : RouteMatches(registered[i], urlPath)

(***************************************************************************)
(* KyukoResponseImpl: the methods of the response of one request, called   *)
(* in any order by whoever holds the response.  res.responses are the      *)
(* responses handed to fetchEvent.respondWith.                             *)
(***************************************************************************)

\* send(): throws when #sent, else responds and sets #sent
SendOp(r) ==
  IF r.sent THEN [res |-> r, effect |-> "throw"]
  ELSE [res |-> Send(r), effect |-> "sent"]

\* json(object): throws when #sent, else sets the content type and sends
JsonOp(r) ==
  IF r.sent THEN [res |-> r, effect |-> "throw"] ELSE SendOp(r)

\* redirect(address, status): throws when #sent, else sets the status and the
\* location and sends
RedirectOp(r, statusCode) ==
  IF r.sent THEN [res |-> r, effect |-> "throw"] ELSE SendOp(Status(r, statusCode))

\* a call of a method of the response, with what it did
Called(method, result) ==
  /\ Len(log) < MaxCalls
  /\ res' = result.res
  /\ log' = Append(log, <<"response", method, result.effect>>)
  /\ UNCHANGED <<nodes, registered, call, customHandlers, defaultHandler, middleware,
                 errorHandlers, req, run, lastRoute, handling>>

ResSend == Called("send", SendOp(res))
ResJson == Called("json", JsonOp(res))
ResRedirect(statusCode) == Called("redirect", RedirectOp(res, statusCode))
ResStatus(statusCode) ==
  Called("status", [res |-> Status(res, statusCode), effect |-> "set"])

NextResponse ==
  \/ ResSend
  \/ ResJson
  \/ \E statusCode \in {301, 302} : ResRedirect(statusCode)
  \/ \E statusCode \in {200, 404} : ResStatus(statusCode)

SpecResponse == Init /\ [][NextResponse]_vars

\* the calls of send, json and redirect in the log, and those that responded
Sending == {k \in 1..Len(log) : log[k][2] \in {"send", "json", "redirect"}}
Responding == {k \in Sending : log[k][3] = "sent"}

(***************************************************************************)
(* C29.  At most one response is sent per request: over any sequence of    *)
(* send, json and redirect calls on one response, respondWith is called at *)
(* most once, wasSent() is true exactly from that call on, and every later *)
(* send, json or redirect throws without calling respondWith.              *)
(***************************************************************************)
C29_AtMostOneResponse ==
  /\ Cardinality(Responding) <= 1
  /\ Len(res.responses) = Cardinality(Responding)
  /\ res.sent <=> Responding # {}
  /\ \A k \in Sending : log[k][3] = "throw" <=> \E j \in Responding : j < k

\* json has responded; the status was set, and send and redirect have thrown
C29_Witness ==
  /\ Len(log) = MaxCalls
  /\ log[1] = <<"response", "json", "sent">>
  /\ log[2] = <<"response", "status", "set">>
  /\ log[3] = <<"response", "send", "throw">>
  /\ log[4] = <<"response", "redirect", "throw">>
  /\ res.sent
  /\ Len(res.responses) = 1

\* in the requests of the Kyuko with handleError, whatever the middleware,
\* the route handler and the error handlers do in whatever order
C29_OneResponsePerRequest ==
  /\ Len(res.responses) <= 1
  /\ res.sent <=> Len(res.responses) = 1

\* a handler is registered for the method under the route path
HandlerRegistered(method, routePath) ==
  method \in Methods /\ routePath \in DOMAIN customHandlers[method]

\* what handleRequest does with a route path that has no handler for the
\* method of the request, and with no route path
DefaultForOtherMethods ==
  /\ call.ret = FindMatchOp(nodes, req.path)
  /\ (Routed /\ ~HandlerRegistered(req.method, call.ret)) =>
       /\ run.handler = defaultHandler
       /\ req.params = CreatePathParams(call.ret, req.path)
  /\ Routed => req.params = CreatePathParams(call.ret, req.path)
  /\ call.ret = Undefined => (run.handler = defaultHandler /\ req.params = Empty)

(***************************************************************************)
(* C30.  In Kyuko.handleRequest path matching is independent of the method *)
(* of the request: when findMatch returns a route path that has no handler *)
(* for the method, the default handler is selected, and req.params is      *)
(* populated from the route path all the same; req.params stays empty only *)
(* when no route path matches.                                             *)
(***************************************************************************)
C30_ParamsEmptyOnlyWithoutMatch ==
  Handling =>
    /\ DefaultForOtherMethods
    /\ req.params = Empty => call.ret = Undefined

\* C30 with req.params empty when no route path matches and when the route
\* path returned has no wildcard segment, and only then
C30_DefaultHandlerWithParams ==
  Handling =>
    /\ DefaultForOtherMethods
    /\ req.params = Empty <=> (call.ret = Undefined \/ ~HasWildcard(call.ret))

\* a handler under GET only, and a request of another method that findMatch
\* answered with its route path: the default handler set with app.default is
\* selected and has been called, and req.params has the wildcard
C30_Witness ==
  /\ Routed
  /\ req.method \notin {"GET", "PATCH"}
  /\ HandlerRegistered("GET", call.ret)
  /\ ~HandlerRegistered(req.method, call.ret)
  /\ defaultHandler = "h2"
  /\ run.handler = "h2"
  /\ HandlersCalled = {"h2"}
  /\ req.params # Empty

====
